---------------------------- MODULE Spec2Model ----------------------------
(***************************************************************************)
(* GridSense AI (src/app.py): the signal generator, the decision engine    *)
(* and the Streamlit session that drives them.                             *)
(*                                                                         *)
(* Numbers.  The stress index is the double                                *)
(*   temp * 0.4 + humidity * 0.3 + age * 0.3.                              *)
(* The model holds it in tenths, 4*temp + 3*humidity + 3*age, an integer.  *)
(* On every snapshot the model draws (the whole declared domain, and the   *)
(* out-of-domain values of OutsideTemperature .. OutsideRenewable) the     *)
(* double compares with 80 exactly as the tenths compare with 800, and     *)
(* both "{:.1f}" and round(x, 1) give that number of tenths.  (This is not *)
(* so for every integer input: with humidity 101, temp 86, age 51 the      *)
(* double is 79.99999999999999; the model draws no humidity above 100.)    *)
(* weather_score, a float, is held in hundredths.                          *)
(*                                                                         *)
(* Strings.  A message is [text |-> template, args |-> <<values>>]: the    *)
(* f-string's fixed text with {} for each interpolated value, and the      *)
(* values in order.  The status glyphs are named by colour: "green",       *)
(* "orange", "red".  Emoji prefixes of the messages are left out.          *)
(***************************************************************************)
EXTENDS Integers, Sequences, FiniteSets, TLC

VARIABLES
    session_state,  \* st.session_state: a mapping, empty before the first run
    admin,          \* the "Enable Admin Controls" checkbox
    is_critical,    \* the argument of the latest generate_random_signals call
    result,         \* the tuple gridsense_reroute_logic returned last
    output_data,    \* the exported record of the last script run
    runs            \* script runs so far: the clock behind "timestamp"

vars == <<session_state, admin, is_critical, result, output_data, runs>>

\* Script runs of one session the model follows.
MaxRuns == 4

\* Intervals of the grid that samples each field's declared range.
Samples == 8

(***************************************************************************)
(* random                                                                  *)
(***************************************************************************)

\* random.randint(a, b): any integer of a..b; the model draws the two ends.
\* Every test the code makes on a drawn value is monotone in it.
randint(a, b) == {a, b}

\* random.uniform(a, b), in hundredths: the two ends.
uniform(a, b) == {a, b}

\* random.choice(seq): any element.
choice(seq) == {seq[i] : i \in DOMAIN seq}

(***************************************************************************)
(* Signal generator                                                        *)
(***************************************************************************)

\* generate_random_signals with the critical regime's age drawn up to 100.
generate_random_signals_wide_age(crit) ==
    LET temps  == IF crit THEN randint(90, 100) ELSE randint(50, 85)
        hums   == IF crit THEN randint(80, 100) ELSE randint(30, 75)
        ages   == IF crit THEN randint(70, 100) ELSE randint(10, 65)
        loads  == IF crit THEN randint(90, 100) ELSE randint(30, 85)
        faults == IF crit THEN choice(<<0, 0, 0, 1>>)
                          ELSE choice(<<0, 0, 0, 0, 0, 1>>)
    IN  [temperature         : temps,
         humidity            : hums,
         component_age_score : ages,
         load_percentage     : loads,
         fault_signal        : faults,
         current_topology    : choice(<<"Normal-A/B", "Rerouted-B/A">>),
         renewable_input     : randint(500, 1500),
         weather_score       : uniform(50, 95)]

generate_random_signals(crit) ==
    LET temps  == IF crit THEN randint(90, 100) ELSE randint(50, 85)
        hums   == IF crit THEN randint(80, 100) ELSE randint(30, 75)
        ages   == IF crit THEN randint(70, 95)  ELSE randint(10, 65)
        loads  == IF crit THEN randint(90, 100) ELSE randint(30, 85)
        faults == IF crit THEN choice(<<0, 0, 0, 1>>)
                          ELSE choice(<<0, 0, 0, 0, 0, 1>>)
    IN  [temperature         : temps,
         humidity            : hums,
         component_age_score : ages,
         load_percentage     : loads,
         fault_signal        : faults,
         current_topology    : choice(<<"Normal-A/B", "Rerouted-B/A">>),
         renewable_input     : randint(500, 1500),
         weather_score       : uniform(50, 95)]

(***************************************************************************)
(* Decision engine                                                         *)
(***************************************************************************)

Msg(text, args) == [text |-> text, args |-> args]

\* stress_index with the weights of temperature and age exchanged.
stress_index_swapped(temp, humidity, age) == (temp * 3) + (humidity * 3) + (age * 4)

\* In tenths: (temp * 0.4) + (humidity * 0.3) + (age * 0.3).
stress_index(temp, humidity, age) == (temp * 4) + (humidity * 3) + (age * 3)

\* In tenths, as stress_index is.
CRITICAL_THRESHOLD == 800

\* Lines 47-52: the values every branch starts from.
DefaultRecord(signals, stress) ==
    [raised                    |-> "none",
     status_color              |-> "green",
     fault_alert               |-> Msg("No existing physical fault detected (Fault Sensor: Nominal).", <<>>),
     self_care_alert           |-> Msg("AI actively monitoring key stressors.", <<>>),
     reroute_message           |-> Msg("Line A carrying full load, Line B on standby.", <<>>),
     future_prediction         |-> Msg("Stable. No maintenance required.", <<>>),
     sustainability_suggestion |-> Msg("Routing {} MW clean energy efficiently.", <<signals.renewable_input>>),
     stress_index              |-> stress]

\* Lines 55-60.
CriticalRecord(signals, stress) ==
    [DefaultRecord(signals, stress) EXCEPT
        !.status_color              = "red",
        !.fault_alert               = Msg("MICRO-FAILURE PREDICTED: Stress Index {:.1f}. Failure likely < 72 hours.", <<stress>>),
        !.self_care_alert           = Msg("REROUTE INITIATED: Calculating optimal power path.", <<>>),
        !.reroute_message           = Msg("Stability maintained: Power rerouted to Line B, Line A isolated.", <<>>),
        !.future_prediction         = Msg("Trend: CRITICAL. Rising stress; immediate isolation advised.", <<>>),
        !.sustainability_suggestion = Msg("Action: Rerouting prioritized {} MW renewables.", <<signals.renewable_input>>)]

\* Lines 62-67.
FaultRecord(signals, stress) ==
    [DefaultRecord(signals, stress) EXCEPT
        !.status_color              = "orange",
        !.fault_alert               = Msg("REAL-TIME FAULT: Issue detected; AI mitigating damage.", <<>>),
        !.self_care_alert           = Msg("EMERGENCY REROUTE: Isolating fault sector.", <<>>),
        !.reroute_message           = Msg("Emergency reroute in progress. Grid recovering.", <<>>),
        !.future_prediction         = Msg("Trend: INSTABILITY. Further predictive monitoring ongoing.", <<>>),
        !.sustainability_suggestion = Msg("Efficiency temporarily reduced; optimization underway.", <<>>)]

\* LoadRecord interpolating the renewable input where the load belongs.
LoadRecord_renewable(signals, stress) ==
    [DefaultRecord(signals, stress) EXCEPT
        !.future_prediction         = Msg("Load high ({}%). Balancing advised.", <<signals.renewable_input>>),
        !.sustainability_suggestion = Msg("Shifting 10% load to Line B to avoid wastage.", <<>>)]

\* LoadRecord giving the loaded branch a status glyph of its own.
LoadRecord_yellow(signals, stress) ==
    [DefaultRecord(signals, stress) EXCEPT
        !.status_color              = "yellow",
        !.future_prediction         = Msg("Load high ({}%). Balancing advised.", <<signals.load_percentage>>),
        !.sustainability_suggestion = Msg("Shifting 10% load to Line B to avoid wastage.", <<>>)]

\* Lines 70-71.
LoadRecord(signals, stress) ==
    [DefaultRecord(signals, stress) EXCEPT
        !.future_prediction         = Msg("Load high ({}%). Balancing advised.", <<signals.load_percentage>>),
        !.sustainability_suggestion = Msg("Shifting 10% load to Line B to avoid wastage.", <<>>)]

\* Branch with the threshold exclusive.
Branch_strict(signals, stress) ==
    IF stress > CRITICAL_THRESHOLD THEN "critical"
    ELSE IF signals.fault_signal = 1 THEN "fault"
    ELSE IF signals.load_percentage > 80 THEN "load"
    ELSE "default"

\* Branch with the load test ahead of the fault test.
Branch_load_first(signals, stress) ==
    IF stress >= CRITICAL_THRESHOLD THEN "critical"
    ELSE IF signals.load_percentage > 80 THEN "load"
    ELSE IF signals.fault_signal = 1 THEN "fault"
    ELSE "default"

\* The if / elif / elif chain of lines 54, 61, 69: the branch taken.
Branch(signals, stress) ==
    IF stress >= CRITICAL_THRESHOLD THEN "critical"
    ELSE IF signals.fault_signal = 1 THEN "fault"
    ELSE IF signals.load_percentage > 80 THEN "load"
    ELSE "default"

\* The declared domain of a snapshot's fields (spec.md, section 3).
InDomain(s) ==
    /\ s.temperature \in 50..100
    /\ s.humidity \in 30..100
    /\ s.component_age_score \in 0..100
    /\ s.load_percentage \in 0..100
    /\ s.fault_signal \in {0, 1}
    /\ s.renewable_input \in 0..2000

\* gridsense_reroute_logic validating its input first and rejecting it.
gridsense_reroute_logic_validating(signals) ==
    LET temp     == signals.temperature
        humidity == signals.humidity
        age      == signals.component_age_score
        stress   == stress_index(temp, humidity, age)
        taken    == Branch(signals, stress)
    IN  CASE ~InDomain(signals)  -> [raised |-> "OutOfRangeInput"]
          [] taken = "critical" -> CriticalRecord(signals, stress)
          [] taken = "fault"    -> FaultRecord(signals, stress)
          [] taken = "load"     -> LoadRecord(signals, stress)
          [] OTHER              -> DefaultRecord(signals, stress)

gridsense_reroute_logic(signals) ==
    LET temp     == signals.temperature
        humidity == signals.humidity
        age      == signals.component_age_score
        stress   == stress_index(temp, humidity, age)
        taken    == Branch(signals, stress)
    IN  CASE taken = "critical" -> CriticalRecord(signals, stress)
          [] taken = "fault"    -> FaultRecord(signals, stress)
          [] taken = "load"     -> LoadRecord(signals, stress)
          [] OTHER              -> DefaultRecord(signals, stress)

(***************************************************************************)
(* The script                                                              *)
(***************************************************************************)

Empty == [k \in {} |-> 0]

\* system_health with only the critical glyph raising the alert.
system_health_red_only(status_c) == IF status_c = "red" THEN "ALERT" ELSE "HEALTHY"

\* Line 127.
system_health(status_c) == IF status_c = "green" THEN "HEALTHY" ELSE "ALERT"

\* output_data of a run whose engine call returned r at clock value now.
BuildOutput(r, now) ==
    [status               |-> r.status_color,
     system_health        |-> system_health(r.status_color),
     stress_index         |-> r.stress_index,
     fault_alert          |-> r.fault_alert,
     self_care_action     |-> r.self_care_alert,
     reroute_status       |-> r.reroute_message,
     future_prediction    |-> r.future_prediction,
     sustainability_focus |-> r.sustainability_suggestion,
     timestamp            |-> now]

\* The script from the engine call on, with the session's snapshot now s.
Rerun(s) ==
    /\ runs < MaxRuns
    /\ runs' = runs + 1
    /\ session_state' = [signals |-> s]
    /\ result' = gridsense_reroute_logic(s)
    /\ output_data' = BuildOutput(result', runs')

HasSignals == "signals" \in DOMAIN session_state

Init ==
    /\ session_state = Empty
    /\ admin = FALSE
    /\ is_critical = FALSE
    /\ result = Empty
    /\ output_data = Empty
    /\ runs = 0

\* The first run of a session: no snapshot yet, the checkbox unchecked.
FirstRun ==
    /\ ~HasSignals
    /\ \E s \in generate_random_signals(FALSE) : Rerun(s)
    /\ is_critical' = FALSE
    /\ UNCHANGED admin

\* The checkbox is toggled; the widgets under it return their defaults.
ToggleAdmin ==
    /\ HasSignals
    /\ admin' = ~admin
    /\ Rerun(session_state.signals)
    /\ UNCHANGED is_critical

\* A button's on_click callback replaces the snapshot, then the script runs.
ClickRandom(crit) ==
    /\ HasSignals
    /\ admin
    /\ \E s \in generate_random_signals(crit) : Rerun(s)
    /\ is_critical' = crit
    /\ UNCHANGED admin

ClickRandomNormal == ClickRandom(FALSE)

ClickRandomCritical == ClickRandom(TRUE)

\* st.slider(label, lo, hi, value): what the user can set it to.  The model
\* draws the two ends; value itself is the case of the widget left alone.
slider(lo, hi) == {lo, hi}

selectbox(options) == {options[i] : i \in DOMAIN options}

\* The temperature slider given the range of the component-age slider.
TemperatureSlider_from_zero == slider(0, 100)

TemperatureSlider == slider(50, 100)
HumiditySlider == slider(30, 100)
ComponentAgeSlider == slider(0, 100)
LoadSlider == slider(0, 100)
FaultSelectbox == selectbox(<<0, 1>>)
RenewableSlider == slider(0, 2000)
WeatherSlider == slider(0, 100)

\* The user moves one widget to v; the script reruns and stores it.
Override(field, values) ==
    /\ HasSignals
    /\ admin
    /\ \E v \in values :
          /\ v # session_state.signals[field]
          /\ Rerun([session_state.signals EXCEPT ![field] = v])
    /\ UNCHANGED <<admin, is_critical>>

SetTemperature == Override("temperature", TemperatureSlider)
SetHumidity == Override("humidity", HumiditySlider)
SetComponentAge == Override("component_age_score", ComponentAgeSlider)
SetLoad == Override("load_percentage", LoadSlider)
SetFault == Override("fault_signal", FaultSelectbox)
SetRenewable == Override("renewable_input", RenewableSlider)
SetWeather == Override("weather_score", WeatherSlider)

Next ==
    \/ FirstRun
    \/ ToggleAdmin
    \/ ClickRandomNormal
    \/ ClickRandomCritical
    \/ SetTemperature
    \/ SetHumidity
    \/ SetComponentAge
    \/ SetLoad
    \/ SetFault
    \/ SetRenewable
    \/ SetWeather

Spec == Init /\ [][Next]_vars

(***************************************************************************)
(* The two functions called directly                                       *)
(***************************************************************************)

Sig == session_state.signals

Called == result # Empty

\* Samples + 1 values spread over lo..hi, both ends among them.
Grid(lo, hi) == {lo + ((i * (hi - lo)) \div Samples) : i \in 0..Samples}

\* Values a caller other than the clamped widgets can pass.
OutsideTemperature == {49, 101}
OutsideHumidity == {29}
OutsideAge == {-1, 101}
OutsideLoad == {-1, 101}
OutsideFault == {2}
OutsideRenewable == {-1, 2001}

\* The snapshots handed to gridsense_reroute_logic(signals).
Snapshots ==
    [temperature         : Grid(50, 100) \cup OutsideTemperature,
     humidity            : Grid(30, 100) \cup OutsideHumidity,
     component_age_score : Grid(0, 100) \cup OutsideAge,
     load_percentage     : Grid(0, 100) \cup {80, 81} \cup OutsideLoad,
     fault_signal        : {0, 1} \cup OutsideFault,
     current_topology    : {"Normal-A/B", "Rerouted-B/A"},
     renewable_input     : {0, 2000} \cup OutsideRenewable,
     weather_score       : {50}]

\* gridsense_reroute_logic(signals) called on the snapshot held.
CallEngine ==
    /\ HasSignals
    /\ ~Called
    /\ result' = gridsense_reroute_logic(Sig)
    /\ UNCHANGED <<session_state, admin, is_critical, output_data, runs>>

\* generate_random_signals(crit) called, its snapshot held.
CallGenerator(crit) ==
    /\ ~HasSignals
    /\ \E s \in generate_random_signals(crit) : session_state' = [signals |-> s]
    /\ is_critical' = crit
    /\ UNCHANGED <<admin, result, output_data, runs>>

InitCall ==
    /\ session_state = Empty
    /\ admin = FALSE
    /\ is_critical = FALSE
    /\ result = Empty
    /\ output_data = Empty
    /\ runs = 0

InitFn ==
    /\ \E s \in Snapshots : session_state = [signals |-> s]
    /\ admin = FALSE
    /\ is_critical = FALSE
    /\ result = Empty
    /\ output_data = Empty
    /\ runs = 0

NextFn == CallEngine

\* The engine on any snapshot of Snapshots.
SpecFn == InitFn /\ [][NextFn]_vars

NextGen ==
    \/ CallGenerator(TRUE)
    \/ CallGenerator(FALSE)
    \/ CallEngine

\* The generator, then the engine on what it returned.
SpecGen == InitCall /\ [][NextGen]_vars

(***************************************************************************)
(* Properties                                                              *)
(***************************************************************************)

\* The stress index as the specification writes it, in tenths.
StressTenths(s) == (4 * s.temperature) + (3 * s.humidity) + (3 * s.component_age_score)

\* The message m interpolates the value v.
Carries(m, v) == \E i \in DOMAIN m.args : m.args[i] = v

\* C1: every snapshot of the declared domain whose stress index is at least
\* 80 (800 tenths), 80 itself included, is given the Critical status, whatever
\* its fault_signal and load_percentage.
C1_CriticalFromEighty ==
    (Called /\ InDomain(Sig) /\ StressTenths(Sig) >= 800)
        => result.status_color = "red"

C1_Witness ==
    /\ HasSignals /\ Called /\ InDomain(Sig)
    /\ StressTenths(Sig) = 800
    /\ Sig.fault_signal = 1
    /\ Sig.load_percentage > 80
    /\ result.status_color = "red"

\* C2: every snapshot of the declared domain with stress index below 80 and
\* fault_signal 1 is given the Fault status, whatever its load_percentage.
C2_FaultBelowEighty ==
    (Called /\ InDomain(Sig) /\ StressTenths(Sig) < 800 /\ Sig.fault_signal = 1)
        => result.status_color = "orange"

C2_Witness ==
    /\ HasSignals /\ Called /\ InDomain(Sig)
    /\ StressTenths(Sig) < 800
    /\ Sig.fault_signal = 1
    /\ Sig.load_percentage > 80
    /\ result.status_color = "orange"

LoadedCase ==
    /\ HasSignals /\ Called
    /\ StressTenths(Sig) < 800
    /\ Sig.fault_signal = 0
    /\ Sig.load_percentage > 80

\* C3 as claimed: with stress index below 80, fault_signal 0 and
\* load_percentage above 80, both future_prediction and sustainability_focus
\* carry the snapshot's load_percentage value.
C3_BothCarryLoad ==
    LoadedCase =>
        /\ Carries(result.future_prediction, Sig.load_percentage)
        /\ Carries(result.sustainability_suggestion, Sig.load_percentage)

\* C3 as amended: in that case future_prediction is "Load high (<load>%).
\* Balancing advised." with the snapshot's load_percentage, and
\* sustainability_focus is the fixed text "Shifting 10% load to Line B to
\* avoid wastage.", which carries no value of the snapshot.
C3_OnlyPredictionCarriesLoad ==
    LoadedCase =>
        /\ result.future_prediction =
              Msg("Load high ({}%). Balancing advised.", <<Sig.load_percentage>>)
        /\ result.sustainability_suggestion =
              Msg("Shifting 10% load to Line B to avoid wastage.", <<>>)

C3_Witness ==
    /\ LoadedCase
    /\ Sig.load_percentage = 81
    /\ Carries(result.future_prediction, 81)
    /\ ~Carries(result.sustainability_suggestion, 81)

\* C4 as claimed: when a field of the snapshot lies outside its declared
\* domain the engine fails with an OutOfRangeInput error.
C4_RejectsOutOfRange ==
    (Called /\ ~InDomain(Sig)) => result.raised = "OutOfRangeInput"

\* C4 as amended: the engine validates nothing; on a snapshot with a field
\* outside its declared domain it raises no error and returns a decision
\* record with one of the three status glyphs.
C4_AcceptsOutOfRange ==
    (Called /\ ~InDomain(Sig)) =>
        /\ result.raised = "none"
        /\ result.status_color \in {"green", "orange", "red"}

C4_Witness ==
    /\ HasSignals /\ Called
    /\ Sig.temperature = 101
    /\ Sig.fault_signal = 2
    /\ result.raised = "none"

\* C5: in the exported record system_health is "HEALTHY" exactly when the
\* evaluated status is Normal (green), and "ALERT" for Fault and Critical.
C5_HealthyIffNormal ==
    output_data # Empty =>
        /\ output_data.status = result.status_color
        /\ (output_data.system_health = "HEALTHY") <=> (result.status_color = "green")
        /\ result.status_color \in {"orange", "red"} => output_data.system_health = "ALERT"

C5_Witness ==
    /\ output_data # Empty
    /\ result.status_color = "orange"
    /\ output_data.system_health = "ALERT"

\* C6: on the declared domain the status is Normal exactly when the stress
\* index is below 80 and fault_signal is 0; a load_percentage above 80 leaves
\* the status and the fault, self-care and reroute messages as they are with
\* a lower load.
C6_NormalIffCalmAndNoFault ==
    (Called /\ InDomain(Sig)) =>
        /\ (result.status_color = "green")
              <=> (StressTenths(Sig) < 800 /\ Sig.fault_signal = 0)
        /\ (StressTenths(Sig) < 800 /\ Sig.fault_signal = 0) =>
              LET calm == gridsense_reroute_logic([Sig EXCEPT !.load_percentage = 0])
              IN  /\ result.fault_alert = calm.fault_alert
                  /\ result.self_care_alert = calm.self_care_alert
                  /\ result.reroute_message = calm.reroute_message

C6_Witness ==
    /\ LoadedCase /\ InDomain(Sig)
    /\ result.status_color = "green"
    /\ result.future_prediction.text = "Load high ({}%). Balancing advised."

\* The sub-ranges of the regime crit.
InRegime(s, crit) ==
    /\ s.temperature \in (IF crit THEN 90..100 ELSE 50..85)
    /\ s.humidity \in (IF crit THEN 80..100 ELSE 30..75)
    /\ s.component_age_score \in (IF crit THEN 70..95 ELSE 10..65)
    /\ s.load_percentage \in (IF crit THEN 90..100 ELSE 30..85)
    /\ s.fault_signal \in {0, 1}
    /\ s.renewable_input \in 500..1500

\* C7: every snapshot generate_random_signals returns lies in the sub-ranges
\* of the regime asked for, with fault_signal 0 or 1 and renewable_input in
\* 500..1500 in both regimes.
C7_GeneratedInRegime ==
    HasSignals => InRegime(Sig, is_critical)

C7_Witness ==
    /\ HasSignals
    /\ is_critical
    /\ Sig.component_age_score = 95
    /\ Sig.temperature = 90

\* C9: a generated snapshot is classified Critical exactly when it was
\* generated with is_critical true: the critical regime's stress index is at
\* least 80 and the nominal regime's is below 80.
C9_RegimeDecidesCritical ==
    (HasSignals /\ Called) =>
        /\ (result.status_color = "red") <=> is_critical
        /\ is_critical => StressTenths(Sig) >= 800
        /\ ~is_critical => StressTenths(Sig) < 800 /\ result.status_color \in {"green", "orange"}

C9_Witness ==
    /\ HasSignals /\ Called
    /\ is_critical
    /\ StressTenths(Sig) = 810
    /\ Sig.fault_signal = 1
    /\ result.status_color = "red"

\* C10: after any sequence of UI actions the session's snapshot, the one
\* handed to the engine, has every field inside its declared domain.
C10_SessionSnapshotInDomain ==
    HasSignals =>
        /\ InDomain(Sig)
        /\ Sig.current_topology \in {"Normal-A/B", "Rerouted-B/A"}
        /\ result = gridsense_reroute_logic(Sig)

C10_Witness ==
    /\ HasSignals
    /\ admin
    /\ is_critical
    /\ Sig.temperature = 50
    /\ Sig.humidity = 100

=============================================================================
